---- MODULE Spec2Model ----
(***************************************************************************)
(* Model of the macOS Secure Enclave key handle of the crypto layer:       *)
(*   src/src/tpm/macos/key_handle.rs      impl KeyHandle for TpmProvider   *)
(*   src/src/tpm/macos/swift_rust_wrapper/src/lib.rs   the FFI bridge      *)
(* Byte sequences and Rust Strings are sequences of integers 0..255; a     *)
(* String is a byte sequence that passed UTF-8 validation.                 *)
(***************************************************************************)
EXTENDS Integers, Sequences, FiniteSets, TLC

(***************************************************************************)
(* Bounds and input sets                                                   *)
(***************************************************************************)
\* longest payload enumerated exhaustively over ByteAlphabet
MaxLen == 1

\* 'e', the two bytes of U+00E9 (0xC3 0xA9), and 0xFF which no UTF-8 text contains
ByteAlphabet == {101, 195, 169, 255}

RECURSIVE SeqsUpTo(_, _)
SeqsUpTo(S, n) ==
    IF n = 0 THEN {<<>>}
    ELSE LET shorter == SeqsUpTo(S, n - 1)
         IN  shorter \cup {Append(s, b) : s \in {t \in shorter : Len(t) = n - 1}, b \in S}

\* "true"
str_true == <<116, 114, 117, 101>>
\* "false"
str_false == <<102, 97, 108, 115, 101>>
\* "True"
str_True == <<84, 114, 117, 101>>
\* "error"
str_error == <<101, 114, 114, 111, 114>>
\* "ERROR"
str_ERROR == <<69, 82, 82, 79, 82>>
\* "terror"
str_terror == <<116, 101, 114, 114, 111, 114>>
\* "erro"
str_erro == <<101, 114, 114, 111>>
\* "Error: no key"
str_Error_key == <<69, 114, 114, 111, 114, 58, 32, 110, 111, 32, 107, 101, 121>>
\* "6a"
str_sig == <<54, 97>>
\* "ok"
str_ok == <<111, 107>>
\* "Error: bad ciphertext"
MsgBadCiphertext == <<69, 114, 114, 111, 114, 58, 32, 98, 97, 100, 32, 99, 105, 112, 104, 101, 114, 116, 101, 120, 116>>
\* "Error: create failed"
MsgCreateFailed == <<69, 114, 114, 111, 114, 58, 32, 99, 114, 101, 97, 116, 101, 32, 102, 97, 105, 108, 101, 100>>
\* "Data conversion error"
MsgDataConversion == <<68, 97, 116, 97, 32, 99, 111, 110, 118, 101, 114, 115, 105, 111, 110, 32, 101, 114, 114, 111, 114>>
\* "Signature conversion error"
MsgSignatureConversion == <<83, 105, 103, 110, 97, 116, 117, 114, 101, 32, 99, 111, 110, 118, 101, 114, 115, 105, 111, 110, 32, 101, 114, 114, 111, 114>>

\* 0xDE 0xAD 0xBE 0xEF and 0xDE 0xAD 0xBE 0xFF
bytes_deadbeef == <<222, 173, 190, 239>>
bytes_deadbeff == <<222, 173, 190, 255>>
\* U+00E9 encoded in UTF-8
str_eacute == <<195, 169>>

\* What callers pass as data, ciphertext or signature
Payloads ==
    SeqsUpTo(ByteAlphabet, MaxLen)
        \cup {str_eacute, str_error, str_sig, bytes_deadbeef, bytes_deadbeff}

KeyIds == {"k1", "k2"}
AlgorithmSpecs == {"EC256_SHA256", "RSA2048_SHA256"}

(***************************************************************************)
(* Result<T, SecurityModuleError>                                          *)
(***************************************************************************)
Ok(v) == [tag |-> "Ok", kind |-> "", val |-> v]
Err(kind, msg) == [tag |-> "Err", kind |-> kind, val |-> msg]

(***************************************************************************)
(* String::from_utf8: the validation Rust runs on the byte vector          *)
(***************************************************************************)
IsCont(b) == b >= 128 /\ b <= 191

\* number of bytes of the UTF-8 sequence starting at v[i], 0 if it is malformed
Utf8SeqLen(v, i) ==
    LET n == Len(v)
        b0 == v[i]
        b1 == IF i + 1 <= n THEN v[i + 1] ELSE -1
        b2 == IF i + 2 <= n THEN v[i + 2] ELSE -1
        b3 == IF i + 3 <= n THEN v[i + 3] ELSE -1
    IN  IF b0 < 128 THEN 1
        ELSE IF b0 >= 194 /\ b0 <= 223 THEN
            IF IsCont(b1) THEN 2 ELSE 0
        ELSE IF b0 >= 224 /\ b0 <= 239 THEN
            IF /\ \/ b0 = 224 /\ b1 >= 160 /\ b1 <= 191
                  \/ b0 \in (225..236) \cup {238, 239} /\ IsCont(b1)
                  \/ b0 = 237 /\ b1 >= 128 /\ b1 <= 159
               /\ IsCont(b2)
            THEN 3 ELSE 0
        ELSE IF b0 >= 240 /\ b0 <= 244 THEN
            IF /\ \/ b0 = 240 /\ b1 >= 144 /\ b1 <= 191
                  \/ b0 \in 241..243 /\ IsCont(b1)
                  \/ b0 = 244 /\ b1 >= 128 /\ b1 <= 143
               /\ IsCont(b2)
               /\ IsCont(b3)
            THEN 4 ELSE 0
        ELSE 0

RECURSIVE ValidUtf8From(_, _)
ValidUtf8From(v, i) ==
    IF i > Len(v) THEN TRUE
    ELSE LET w == Utf8SeqLen(v, i)
         IN  w # 0 /\ ValidUtf8From(v, i + w)

\* String::from_utf8(v).is_ok()
from_utf8_ok(v) == ValidUtf8From(v, 1)

(***************************************************************************)
(* Regex::new("(?i)error").is_match(s)                                     *)
(***************************************************************************)
\* simple case folding of one byte of the haystack; e, r and o fold only
\* with their ASCII capitals
FoldCase(b) == IF b >= 65 /\ b <= 90 THEN b + 32 ELSE b

\* the same search without the (?i) flag
is_match_error_case_sensitive(s) ==
    \E i \in 1..Len(s) :
        /\ i + 4 <= Len(s)
        /\ \A j \in 0..4 : s[i + j] = str_error[j + 1]

is_match_error(s) ==
    \E i \in 1..Len(s) :
        /\ i + 4 <= Len(s)
        /\ \A j \in 0..4 : FoldCase(s[i + j]) = str_error[j + 1]

(***************************************************************************)
(* The secure-enclave backend behind the FFI bridge.  It lives outside the *)
(* Rust sources; two behaviours are considered: a backend implementing     *)
(* correct cryptography, and one that may answer anything.                 *)
(***************************************************************************)
Backends == {"correct", "arbitrary"}

\* key types the backend advertises
Advertised(backend) == {"EC256_SHA256"}

KeyShift(key_id) == IF key_id = "k1" THEN 1 ELSE 2

HexDigit(n) == IF n < 10 THEN 48 + n ELSE 87 + n
IsHexDigit(c) == (c >= 48 /\ c <= 57) \/ (c >= 97 /\ c <= 102)
HexVal(c) == IF c <= 57 THEN c - 48 ELSE c - 87

\* lower-case hex text of the bytes of s, each shifted by k
HexShift(s, k) ==
    [i \in 1..(2 * Len(s)) |->
        LET b == (s[(i + 1) \div 2] + k) % 256
        IN  IF i % 2 = 1 THEN HexDigit(b \div 16) ELSE HexDigit(b % 16)]

IsHexText(c) == Len(c) % 2 = 0 /\ \A i \in 1..Len(c) : IsHexDigit(c[i])

UnHexShift(c, k) ==
    [i \in 1..(Len(c) \div 2) |->
        (16 * HexVal(c[2 * i - 1]) + HexVal(c[2 * i]) + 256 - k) % 256]

BackendEncrypt(key_id, s) == HexShift(s, KeyShift(key_id))

BackendDecrypt(key_id, c) ==
    IF IsHexText(c) /\ from_utf8_ok(UnHexShift(c, KeyShift(key_id)))
    THEN UnHexShift(c, KeyShift(key_id))
    ELSE MsgBadCiphertext

BackendSign(key_id, s) == HexShift(s, KeyShift(key_id) + 7)

BackendVerify(key_id, s, sig) ==
    IF sig = BackendSign(key_id, s) THEN str_true ELSE str_false

\* Strings an arbitrary backend may hand back over the bridge
ArbitraryReplies ==
    {str_true, str_false, str_True, <<>>, str_sig, str_eacute,
     str_error, str_ERROR, str_terror, str_erro, str_Error_key}

\* the String a native call returns
NativeReplies(backend, fn, key_id, args) ==
    IF backend = "arbitrary" THEN ArbitraryReplies
    ELSE IF fn = "sign_data" THEN {BackendSign(key_id, args[1])}
    ELSE IF fn = "encrypt_data" THEN {BackendEncrypt(key_id, args[1])}
    ELSE IF fn = "decrypt_data" THEN {BackendDecrypt(key_id, args[1])}
    ELSE {BackendVerify(key_id, args[1], args[2])}

\* (bool, String) pairs rustcall_create_key may return
CreateReplies == {[ok |-> TRUE, msg |-> str_ok], [ok |-> FALSE, msg |-> MsgCreateFailed]}

\* one crossing of the bridge: the function called, what was passed, what came
\* back.  key_handle.rs passes (key_id, String) and receives a String; the
\* wrappers of lib.rs are a later revision taking Vec<u8>, algorithm and hash
\* and returning (bool, String), which only create_key uses here.
NativeCall(fn, key_id, key_type, args, reply) ==
    [fn |-> fn, key_id |-> key_id, key_type |-> key_type, args |-> args, reply |-> reply]

\* the two String arguments forwarded in the wrong order
rust_crypto_call_create_key_swapped(key_id, key_type, reply) ==
    NativeCall("create_key", key_type, key_id, <<>>, reply)

\* provider::rust_crypto_call_create_key forwards its arguments to the bridge
rust_crypto_call_create_key(key_id, key_type, reply) ==
    NativeCall("create_key", key_id, key_type, <<>>, reply)

(***************************************************************************)
(* impl KeyHandle for TpmProvider.  Each operation yields the set of       *)
(* outcomes it can have: the Result returned and the native calls made.    *)
(***************************************************************************)
\* sign_data calling the backend with a key id of its own
sign_data_fixed_key(self, data) ==
    IF ~from_utf8_ok(data)
    THEN {[result |-> Err("SigningError", MsgDataConversion), calls |-> <<>>]}
    ELSE {[result |-> IF is_match_error(signed_data)
                      THEN Err("EncryptionError", signed_data)
                      ELSE Ok(signed_data),
           calls |-> <<NativeCall("sign_data", "k1", "", <<data>>, signed_data)>>] :
            signed_data \in NativeReplies(self.backend, "sign_data", "k1", <<data>>)}

sign_data(self, data) ==
    IF ~from_utf8_ok(data)
    THEN {[result |-> Err("SigningError", MsgDataConversion), calls |-> <<>>]}
    ELSE {[result |-> IF is_match_error(signed_data)
                      THEN Err("EncryptionError", signed_data)
                      ELSE Ok(signed_data),
           calls |-> <<NativeCall("sign_data", self.key_id, "", <<data>>, signed_data)>>] :
            signed_data \in NativeReplies(self.backend, "sign_data", self.key_id, <<data>>)}

decrypt_data(self, encrypted_data) ==
    IF ~from_utf8_ok(encrypted_data)
    THEN {[result |-> Err("DecryptionError", MsgDataConversion), calls |-> <<>>]}
    ELSE {[result |-> IF is_match_error(decrypted_data)
                      THEN Err("EncryptionError", decrypted_data)
                      ELSE Ok(decrypted_data),
           calls |-> <<NativeCall("decrypt_data", self.key_id, "", <<encrypted_data>>,
                                  decrypted_data)>>] :
            decrypted_data \in
                NativeReplies(self.backend, "decrypt_data", self.key_id, <<encrypted_data>>)}

encrypt_data(self, data) ==
    IF ~from_utf8_ok(data)
    THEN {[result |-> Err("EncryptionError", MsgDataConversion), calls |-> <<>>]}
    ELSE {[result |-> IF is_match_error(encrypted_data)
                      THEN Err("EncryptionError", encrypted_data)
                      ELSE Ok(encrypted_data),
           calls |-> <<NativeCall("encrypt_data", self.key_id, "", <<data>>, encrypted_data)>>] :
            encrypted_data \in NativeReplies(self.backend, "encrypt_data", self.key_id, <<data>>)}

\* the match with the "false" arm missing
match_verification_result_no_false(verification_result) ==
    IF verification_result = str_true THEN Ok(TRUE)
    ELSE Err("SignatureVerificationError", verification_result)

\* the match comparing without regard to letter case
match_verification_result_any_case(verification_result) ==
    LET lower == [i \in 1..Len(verification_result) |-> FoldCase(verification_result[i])]
    IN  IF lower = str_true THEN Ok(TRUE)
        ELSE IF lower = str_false THEN Ok(FALSE)
        ELSE Err("SignatureVerificationError", verification_result)

\* match verification_result.as_str() { "true" => .., "false" => .., _ => .. }
match_verification_result(verification_result) ==
    IF verification_result = str_true THEN Ok(TRUE)
    ELSE IF verification_result = str_false THEN Ok(FALSE)
    ELSE Err("SignatureVerificationError", verification_result)

\* verify_signature converting the signature before the data
verify_signature_signature_first(self, data, signature) ==
    IF ~from_utf8_ok(signature)
    THEN {[result |-> Err("SignatureVerificationError", MsgSignatureConversion),
           calls |-> <<>>]}
    ELSE IF ~from_utf8_ok(data)
    THEN {[result |-> Err("SignatureVerificationError", MsgDataConversion), calls |-> <<>>]}
    ELSE {[result |-> match_verification_result(verification_result),
           calls |-> <<NativeCall("verify_signature", self.key_id, "", <<data, signature>>,
                                  verification_result)>>] :
            verification_result \in
                NativeReplies(self.backend, "verify_signature", self.key_id,
                              <<data, signature>>)}

verify_signature(self, data, signature) ==
    IF ~from_utf8_ok(data)
    THEN {[result |-> Err("SignatureVerificationError", MsgDataConversion), calls |-> <<>>]}
    ELSE IF ~from_utf8_ok(signature)
    THEN {[result |-> Err("SignatureVerificationError", MsgSignatureConversion),
           calls |-> <<>>]}
    ELSE {[result |-> match_verification_result(verification_result),
           calls |-> <<NativeCall("verify_signature", self.key_id, "", <<data, signature>>,
                                  verification_result)>>] :
            verification_result \in
                NativeReplies(self.backend, "verify_signature", self.key_id,
                              <<data, signature>>)}

(***************************************************************************)
(* Provider::create_key                                                    *)
(***************************************************************************)
create_key(prov, key_id, spec) ==
    IF spec \notin Advertised(prov.backend)
    THEN {[result |-> Err("UnsupportedAlgorithm", <<>>), calls |-> <<>>]}
    ELSE {[result |-> IF reply.ok
                      THEN Ok([key_id |-> key_id, spec |-> spec, backend |-> prov.backend])
                      ELSE Err("BackendError", reply.msg),
           calls |-> <<rust_crypto_call_create_key(key_id, spec, reply)>>] :
            reply \in CreateReplies}

(***************************************************************************)
(* State                                                                   *)
(***************************************************************************)
VARIABLES
    provider,   \* the Provider: the backend bound at construction
    handle,     \* the key handle callers hold: key_id, spec, backend binding
    op,         \* the operation performed last and its arguments
    calls,      \* the native calls that operation made, with their replies
    result      \* the Result that operation returned

vars == <<provider, handle, op, calls, result>>

NoHandle == [key_id |-> "", spec |-> "", backend |-> ""]

KeyHandleOps == {"sign_data", "decrypt_data", "encrypt_data", "verify_signature"}

\* key_id, spec: the handle operated on (for create_key: the key requested).
\* chained: the arguments were taken from the Ok result of the operation just
\* before (origin is the data given to that operation)
Operation(name, key_id, spec, data, signature, chained, origin) ==
    [name |-> name, key_id |-> key_id, spec |-> spec, data |-> data,
     signature |-> signature, chained |-> chained, origin |-> origin]

Init ==
    /\ provider \in {[backend |-> b] : b \in Backends}
    /\ handle = NoHandle
    /\ op = Operation("new", "", "", <<>>, <<>>, FALSE, <<>>)
    /\ calls = <<>>
    /\ result = Ok(<<>>)

CreateKey ==
    \E key_id \in KeyIds, spec \in AlgorithmSpecs :
        \E out \in create_key(provider, key_id, spec) :
            /\ op' = Operation("create_key", key_id, spec, <<>>, <<>>, FALSE, <<>>)
            /\ result' = out.result
            /\ calls' = out.calls
            /\ handle' = IF out.result.tag = "Ok" THEN out.result.val ELSE handle
            /\ UNCHANGED provider

SignData ==
    /\ handle # NoHandle
    /\ \E data \in Payloads :
        \E out \in sign_data(handle, data) :
            /\ op' = Operation("sign_data", handle.key_id, handle.spec, data, <<>>, FALSE, <<>>)
            /\ result' = out.result
            /\ calls' = out.calls
            /\ UNCHANGED <<provider, handle>>

EncryptData ==
    /\ handle # NoHandle
    /\ \E data \in Payloads :
        \E out \in encrypt_data(handle, data) :
            /\ op' = Operation("encrypt_data", handle.key_id, handle.spec, data, <<>>, FALSE, <<>>)
            /\ result' = out.result
            /\ calls' = out.calls
            /\ UNCHANGED <<provider, handle>>

\* the Ok payload of the operation just performed, if it was the named one
LastOutput(name) ==
    IF op.name = name /\ result.tag = "Ok" THEN {result.val} ELSE {}

DecryptData ==
    /\ handle # NoHandle
    /\ \E encrypted_data \in Payloads \cup LastOutput("encrypt_data") :
        \E out \in decrypt_data(handle, encrypted_data) :
            LET chained == encrypted_data \in LastOutput("encrypt_data")
            IN  /\ op' = Operation("decrypt_data", handle.key_id, handle.spec, encrypted_data, <<>>, chained,
                                   IF chained THEN op.data ELSE <<>>)
                /\ result' = out.result
                /\ calls' = out.calls
                /\ UNCHANGED <<provider, handle>>

VerifySignature ==
    /\ handle # NoHandle
    /\ \E data \in Payloads, signature \in Payloads \cup LastOutput("sign_data") :
        \E out \in verify_signature(handle, data, signature) :
            LET chained == signature \in LastOutput("sign_data") /\ data = op.data
            IN  /\ op' = Operation("verify_signature", handle.key_id, handle.spec, data, signature, chained,
                                   IF chained THEN op.data ELSE <<>>)
                /\ result' = out.result
                /\ calls' = out.calls
                /\ UNCHANGED <<provider, handle>>

Next ==
    \/ CreateKey
    \/ SignData
    \/ EncryptData
    \/ DecryptData
    \/ VerifySignature

Spec == Init /\ [][Next]_vars

(***************************************************************************)
(* Properties                                                              *)
(***************************************************************************)
CallMade == Len(calls) = 1
Reply == calls[1].reply

IsErr(kind, msg) == result.tag = "Err" /\ result.kind = kind /\ result.val = msg
IsOk(v) == result.tag = "Ok" /\ result.val = v

ConversionMessages == {MsgDataConversion, MsgSignatureConversion}

\* C1: in sign_data, encrypt_data, decrypt_data and verify_signature a payload
\* that is not valid UTF-8 is handed to the backend, and the operation does
\* not fail merely because of the payload's encoding.
C1_NonUtf8Accepted ==
    (/\ op.name \in KeyHandleOps
     /\ ~from_utf8_ok(op.data) \/ ~from_utf8_ok(op.signature))
        => /\ CallMade
           /\ ~(result.tag = "Err" /\ result.val \in ConversionMessages)

\* C2: with a backend whose decrypt inverts its encrypt, encrypt_data(d)
\* returns Ok(c) for every byte sequence d, and decrypt_data(c) on the same
\* handle returns Ok(d).
C2_RoundTrip ==
    provider.backend = "correct"
        => /\ op.name = "encrypt_data" => result.tag = "Ok"
           /\ (op.name = "decrypt_data" /\ op.chained) => IsOk(op.origin)

\* C3: with a backend that accepts its own signatures, sign_data(d) returns
\* Ok(s) for every byte sequence d, and verify_signature(d, s) on the same
\* handle returns Ok(true).
C3_SignThenVerify ==
    provider.backend = "correct"
        => /\ op.name = "sign_data" => result.tag = "Ok"
           /\ (op.name = "verify_signature" /\ op.chained) => IsOk(TRUE)

\* C4: whenever the backend completed the comparison and reported a mismatch,
\* verify_signature returns Ok(false), never an Err.
C4_MismatchIsOkFalse ==
    (op.name = "verify_signature" /\ CallMade /\ Reply = str_false) => IsOk(FALSE)

\* C4 witness: a correct backend compared a signature that is not the one it
\* makes for the data, and verify_signature returned Ok(false).
C4_Witness ==
    /\ op.name = "verify_signature"
    /\ provider.backend = "correct"
    /\ CallMade
    /\ op.signature # BackendSign(op.key_id, op.data)
    /\ Reply = str_false
    /\ IsOk(FALSE)

\* how the backend reports a failure over the string bridge: a message
\* containing "error" in any letter case, and for verification anything but
\* the two canonical answers
BackendReportsFailure(name, r) ==
    IF name = "verify_signature" THEN r \notin {str_true, str_false}
    ELSE \E i \in 1..(Len(r) - 4) :
            \A j \in 0..4 : r[i + j] \in {str_error[j + 1], str_ERROR[j + 1]}

FailureKind(name) ==
    CASE name = "sign_data" -> "SigningError"
      [] name = "encrypt_data" -> "EncryptionError"
      [] name = "decrypt_data" -> "DecryptionError"
      [] name = "verify_signature" -> "SignatureVerificationError"

\* C5: a failure reported by the backend is returned as Err of the variant
\* of the operation (SigningError, EncryptionError, DecryptionError,
\* SignatureVerificationError) with the backend's message unchanged; a
\* success is returned as Ok with the backend's payload.
C5_FailureKindOfOperation ==
    (op.name \in KeyHandleOps /\ CallMade)
        => IF BackendReportsFailure(op.name, Reply)
           THEN IsErr(FailureKind(op.name), Reply)
           ELSE IF op.name = "verify_signature" THEN IsOk(Reply = str_true)
           ELSE IsOk(Reply)

\* C6 as stated: verify_signature returns Ok(true) / Ok(false) exactly for the
\* canonical responses "true" / "false"; any other response is a decode error
\* of kind BackendError.
C6_OtherResponseIsBackendError ==
    (op.name = "verify_signature" /\ CallMade)
        => /\ Reply = str_true => IsOk(TRUE)
           /\ Reply = str_false => IsOk(FALSE)
           /\ Reply \notin {str_true, str_false}
                => result.tag = "Err" /\ result.kind = "BackendError"

\* C6 amended: verify_signature returns Ok(true) / Ok(false) exactly for the
\* canonical responses "true" / "false"; any other response is returned as
\* Err(SignatureVerificationError) carrying the response, never as a boolean.
C6_OtherResponseIsVerificationError ==
    (op.name = "verify_signature" /\ CallMade)
        => /\ Reply = str_true => IsOk(TRUE)
           /\ Reply = str_false => IsOk(FALSE)
           /\ Reply \notin {str_true, str_false}
                => IsErr("SignatureVerificationError", Reply)

\* C6 witness: the backend answered "True", which is not canonical, and the
\* caller got an Err.
C6_Witness ==
    /\ op.name = "verify_signature"
    /\ CallMade
    /\ Reply = str_True
    /\ result.tag = "Err"

C8_HandleUnchanged ==
    [][op'.name \in KeyHandleOps
        => /\ handle' = handle
           /\ provider' = provider
           /\ \A i \in 1..Len(calls') : calls'[i].key_id = handle.key_id]_vars

\* C8 witness: an operation that failed after its backend call, on the handle
\* of key k2.
C8_Witness ==
    /\ op.name \in KeyHandleOps
    /\ handle.key_id = "k2"
    /\ CallMade
    /\ calls[1].key_id = "k2"
    /\ result.tag = "Err"

\* C9: sign_data, encrypt_data and decrypt_data with valid UTF-8 input return
\* Ok(the bytes of the response) iff the response does not contain "error" in
\* any letter case; a response containing it is returned as
\* Err(EncryptionError) carrying the whole response, in all three operations.
C9_ErrorSubstringDecides ==
    (op.name \in {"sign_data", "encrypt_data", "decrypt_data"} /\ from_utf8_ok(op.data))
        => /\ CallMade
           /\ IF BackendReportsFailure(op.name, Reply)
              THEN IsErr("EncryptionError", Reply)
              ELSE IsOk(Reply)

\* C9 witness: sign_data got the payload "terror" back, which contains the
\* letters, and returned it as an EncryptionError.
C9_Witness ==
    /\ op.name = "sign_data"
    /\ CallMade
    /\ Reply = str_terror
    /\ IsErr("EncryptionError", str_terror)

\* C10: an input that is not valid UTF-8 makes the operation return Err
\* before any backend call: SigningError / DecryptionError / EncryptionError
\* ("Data conversion error") for sign_data / decrypt_data / encrypt_data;
\* verify_signature checks data first (SignatureVerificationError("Data
\* conversion error"), also when the signature is invalid too) and returns
\* "Signature conversion error" only when data is valid and signature is not.
C10_ConversionErrorBeforeBackend ==
    /\ (op.name \in {"sign_data", "decrypt_data", "encrypt_data"} /\ ~from_utf8_ok(op.data))
        => IsErr(FailureKind(op.name), MsgDataConversion) /\ ~CallMade
    /\ op.name = "verify_signature"
        => /\ ~from_utf8_ok(op.data)
                => IsErr("SignatureVerificationError", MsgDataConversion) /\ ~CallMade
           /\ (from_utf8_ok(op.data) /\ ~from_utf8_ok(op.signature))
                => IsErr("SignatureVerificationError", MsgSignatureConversion) /\ ~CallMade
           /\ (IsErr("SignatureVerificationError", MsgSignatureConversion) /\ ~CallMade)
                => from_utf8_ok(op.data) /\ ~from_utf8_ok(op.signature)

\* C10 witness: verify_signature was given invalid data and an invalid
\* signature and reported the data.
C10_Witness ==
    /\ op.name = "verify_signature"
    /\ ~from_utf8_ok(op.data)
    /\ ~from_utf8_ok(op.signature)
    /\ IsErr("SignatureVerificationError", MsgDataConversion)
    /\ calls = <<>>

====
